---- MODULE Spec2Model ----
(***************************************************************************)
(* The EV readiness wizard (EVReadyWizard) and its calculation helpers.    *)
(*                                                                         *)
(* The repository holds seven variants of one client-side React component. *)
(* The model runs one of them per behaviour; `variant` is fixed by Init:   *)
(*   "Schedule"  src/src/components/EVReadyWizard.tsx 1-668   (7-row sheet)*)
(*   "Green"     src/src/components/EVReadyWizard.tsx 669-1247             *)
(*   "SimWeek"   src/src/components/EVReadyWizard.tsx 1249-1603 (the file  *)
(*               ends inside the component's JSX: only reset, onQ1, onQ2   *)
(*               and the Reset button of the header are in the source)     *)
(*   "Part1"     src/unnamed/part_001                                      *)
(*   "Part2"     src/unnamed/part_002 1-582                                *)
(*   "FullReset" src/unnamed/part_002 584-1146                             *)
(*   "Part3"     src/unnamed/part_003                                      *)
(*                                                                         *)
(* State is the component's useState cells plus the cache of every useMemo *)
(* cell; an action is one event handler followed by the re-render that     *)
(* React runs after it.  All quantities the wizard handles are integers    *)
(* (slider values, miles, hours); the text box of fast-charge days is a    *)
(* sequence of comma-separated tokens.                                     *)
(***************************************************************************)
EXTENDS Integers, Sequences, FiniteSets, TLC

VARIABLES
    variant,              \* which of the seven components is mounted
    step,                 \* useState<Step>
    canPlug,              \* useState<PlugAnswer>: "yes" | "no" | "null"
    level,                \* useState<ChargeLevel>: "L1" | "L2" | "null"
    showFinalResult,      \* useState(false) (Green, Part1, Part2, Part3)
    milesPerDay,          \* milesPerDay / weekdayMilesPerDay
    drivingDays,          \* drivingDays / weekdayDrivingDays / weekdayDriveDays
    fullRange,            \* fullRange
    weekendMiles,         \* weekendMiles (Green, Part1, Part2, Part3), weekendMilesPerDay (SimWeek)
    weekdayChargeHours,   \* const 9, a useState cell in SimWeek
    weekendChargeHours,   \* weekendChargeHours
    reserveMiles,         \* useState cell in Schedule and SimWeek, const 10 elsewhere
    fastChargeDaysInput,  \* useState<string>, as its comma-separated tokens
    milesPerKwh,          \* useState(3.0), in tenths (Green, Part1, Part2, Part3)
    weekendDriveDays,     \* useState(0), 0..2 (SimWeek)
    memo,                 \* the useMemo caches and the values of the last render
    left,                 \* history: the steps this session has left since (re)load
    afterReset            \* history: the step Reset was pressed on, "none" after any other action

vars == <<variant, step, canPlug, level, showFinalResult, milesPerDay, drivingDays,
          fullRange, weekendMiles, weekdayChargeHours, weekendChargeHours,
          reserveMiles, fastChargeDaysInput, milesPerKwh, weekendDriveDays, memo, left,
          afterReset>>

-----------------------------------------------------------------------------
(* Bounds of the model                                                     *)

\* Besides its default, every slider is sampled at SliderSamples positions spread
\* evenly from its minimum (1: the minimum; 2: both ends; 3: both ends and the
\* middle).  Miles per day is also sampled at both sides of every band edge.
SliderSamples == 1

\* The fast-charge-days text box holds at most MaxTokens comma-separated tokens.
MaxTokens == 1

-----------------------------------------------------------------------------
(* Program constants                                                       *)

l1MilesPerHour == 4
l2MilesPerHour == 25
weekdayNightsPluggedIn == 5
weekendNightsPluggedIn == 2
scheduleDays == 7
nightsPerWeekPluggedIn == 7
fastSessionMiles == 120
publicL2SessionMiles == 60
DefaultOvernightHours == 9
DefaultReserveMiles == 10
DefaultMilesPerDay == 140
DefaultDrivingDays == 5
DefaultWeekendMiles == 20
DefaultWeekendChargeHours == 16
L2WeekdayChargeHours == 6
L2WeekendChargeHours == 10
L1BandReady == 50
L1BandPlan == 120
L2BandReady == 200
MilesMax == 250
MilesStep == 5
DrivingDaysMax == 7
WeekdayDrivingDaysMax == 5
FullRangeMin == 150
FullRangeMax == 400
FullRangeMaxPart1 == 450
FullRangeStep == 10
DefaultFullRange == 260
DefaultFullRangeSchedule == 270
WeekendMilesMax == 150
WeekendMilesMaxPart3 == 100
WeekendChargeHoursMax == 24
ReserveMilesMax == 50
MilesPerKwhMinTenths == 20
MilesPerKwhMaxTenths == 45
DefaultMilesPerKwhTenths == 30
DefaultWeekendMilesPerDay == 30
DefaultWeekendDriveDays == 0
SessionsReady == 1
SessionsPlan == 2

Variants == {"Schedule", "Green", "SimWeek", "Part1", "Part2", "FullReset", "Part3"}

\* null of a nullable object (plan, result, sim)
Null == [null |-> TRUE]

Max(a, b) == IF a >= b THEN a ELSE b
Min(a, b) == IF a <= b THEN a ELSE b

\* Math.round of n / 2 for an integer n >= 0: floor(n / 2 + 0.5)
RoundHalf(n) == (n + 1) \div 2

\* Math.ceil(a / b) for integers a >= 0, b >= 1
MathCeilDiv(a, b) == (a + b - 1) \div b

\* Math.max(0, Math.round(n)); n is an integer in every call the model makes
clampNonNeg(n) == Max(0, n)

-----------------------------------------------------------------------------
(* Pure helpers                                                            *)

\* mutant: the two rates of the table swapped
calcOvernightMilesSwapped(homeLevel, overnightHours) ==
    LET mph == IF homeLevel = "L1" THEN l2MilesPerHour ELSE l1MilesPerHour
    IN  mph * overnightHours

calcOvernightMiles(homeLevel, overnightHours) ==
    LET mph == IF homeLevel = "L1" THEN l1MilesPerHour ELSE l2MilesPerHour
    IN  mph * overnightHours

\* mutant: the weekend nights are left out of the home supply
calcChargePlanWeekdaysOnly(weekdayMilesPerDrivingDay, weekdayDrivingDaysPerWeek, weekendMilesTotal, homeLevel, weekdayOvernightHours, weekendOvernightHours) ==
    LET mph == IF homeLevel = "L1" THEN l1MilesPerHour ELSE l2MilesPerHour
        weekdayOvernightMiles == mph * weekdayOvernightHours
        weekdayNeed == weekdayMilesPerDrivingDay * weekdayDrivingDaysPerWeek
        weeklyNeed == weekdayNeed + weekendMilesTotal
        theoreticalSupply == weekdayOvernightMiles * weekdayNightsPluggedIn
        weeklyHomeSupply == Min(weeklyNeed, theoreticalSupply)
        weeklyShortfall == Max(0, weeklyNeed - weeklyHomeSupply)
    IN  [mph |-> mph, weeklyNeed |-> weeklyNeed,
         weeklyHomeSupply |-> weeklyHomeSupply, weeklyShortfall |-> weeklyShortfall]

\* calcChargePlan of Green, Part1, Part2, Part3 (weekday / weekend split)
calcChargePlan(weekdayMilesPerDrivingDay, weekdayDrivingDaysPerWeek, weekendMilesTotal, homeLevel, weekdayOvernightHours, weekendOvernightHours) ==
    LET mph == IF homeLevel = "L1" THEN l1MilesPerHour ELSE l2MilesPerHour
        weekdayOvernightMiles == mph * weekdayOvernightHours
        weekendOvernightMiles == mph * weekendOvernightHours
        weekdayNeed == weekdayMilesPerDrivingDay * weekdayDrivingDaysPerWeek
        weeklyNeed == weekdayNeed + weekendMilesTotal
        theoreticalSupply == weekdayOvernightMiles * weekdayNightsPluggedIn
                             + weekendOvernightMiles * weekendNightsPluggedIn
        weeklyHomeSupply == Min(weeklyNeed, theoreticalSupply)
        weeklyShortfall == Max(0, weeklyNeed - weeklyHomeSupply)
    IN  [mph |-> mph, weeklyNeed |-> weeklyNeed,
         weeklyHomeSupply |-> weeklyHomeSupply, weeklyShortfall |-> weeklyShortfall]

\* estBatteryKwh: Number((fullRange / Math.max(milesPerKwh, 0.1)).toFixed(1)), in
\* tenths of a kWh; milesPerKwh is in tenths of a mile, toFixed rounds to nearest
calcEstBatteryKwh(fullRangeMiles, milesPerKwhTenths) ==
    LET t == Max(milesPerKwhTenths, 1)
    IN  (200 * fullRangeMiles + t) \div (2 * t)

\* mutant: Math.floor in place of Math.ceil
calcFastChargeSessionsFloor(weeklyShortfallMiles, fullRangeMiles, reserve) ==
    LET usablePerSession == Max(1, fullRangeMiles - reserve)
    IN  IF weeklyShortfallMiles <= 0 THEN 0
        ELSE weeklyShortfallMiles \div usablePerSession

calcFastChargeSessionsForShortfall(weeklyShortfallMiles, fullRangeMiles, reserve) ==
    LET usablePerSession == Max(1, fullRangeMiles - reserve)
    IN  IF weeklyShortfallMiles <= 0 THEN 0
        ELSE MathCeilDiv(weeklyShortfallMiles, usablePerSession)

\* mutant: the weekly need counts all 7 days
calcChargePlanFullResetSevenDays(milesPerDrivingDay, drivingDaysPerWeek, homeLevel, overnightHours) ==
    LET mph == IF homeLevel = "L1" THEN l1MilesPerHour ELSE l2MilesPerHour
        overnightMiles == mph * overnightHours
        weeklyNeed == milesPerDrivingDay * 7
        weeklyHomeSupply == Min(weeklyNeed, overnightMiles * nightsPerWeekPluggedIn)
        weeklyShortfall == Max(0, weeklyNeed - weeklyHomeSupply)
        fastSessionsPerWeek ==
            IF weeklyShortfall = 0 THEN 0 ELSE MathCeilDiv(weeklyShortfall, fastSessionMiles)
        publicL2SessionsPerWeek ==
            IF weeklyShortfall = 0 THEN 0 ELSE MathCeilDiv(weeklyShortfall, publicL2SessionMiles)
    IN  [overnightMiles |-> overnightMiles, weeklyNeed |-> weeklyNeed,
         weeklyHomeSupply |-> weeklyHomeSupply, weeklyShortfall |-> weeklyShortfall,
         fastSessionsPerWeek |-> fastSessionsPerWeek,
         publicL2SessionsPerWeek |-> publicL2SessionsPerWeek]

\* calcChargePlan of FullReset (top-up model, part_002:590)
calcChargePlanFullReset(milesPerDrivingDay, drivingDaysPerWeek, homeLevel, overnightHours) ==
    LET mph == IF homeLevel = "L1" THEN l1MilesPerHour ELSE l2MilesPerHour
        overnightMiles == mph * overnightHours
        weeklyNeed == milesPerDrivingDay * drivingDaysPerWeek
        weeklyHomeSupply == Min(weeklyNeed, overnightMiles * nightsPerWeekPluggedIn)
        weeklyShortfall == Max(0, weeklyNeed - weeklyHomeSupply)
        fastSessionsPerWeek ==
            IF weeklyShortfall = 0 THEN 0 ELSE MathCeilDiv(weeklyShortfall, fastSessionMiles)
        publicL2SessionsPerWeek ==
            IF weeklyShortfall = 0 THEN 0 ELSE MathCeilDiv(weeklyShortfall, publicL2SessionMiles)
    IN  [overnightMiles |-> overnightMiles, weeklyNeed |-> weeklyNeed,
         weeklyHomeSupply |-> weeklyHomeSupply, weeklyShortfall |-> weeklyShortfall,
         fastSessionsPerWeek |-> fastSessionsPerWeek,
         publicL2SessionsPerWeek |-> publicL2SessionsPerWeek]

-----------------------------------------------------------------------------
(* The fast-charge-days text box                                           *)
(*                                                                         *)
(* The string is modelled after split(",") and trim(): a sequence of       *)
(* tokens.  A token is empty (kind "empty"), not a number (kind "nan":     *)
(* Number(s) is NaN) or a decimal numeral, kept in tenths ("2.5" is 25).   *)

Tok(kind, tenths) == [kind |-> kind, tenths |-> tenths]

RECURSIVE SortedSeqOf(_)
SortedSeqOf(S) ==
    IF S = {} THEN << >>
    ELSE LET m == CHOOSE x \in S : \A y \in S : x <= y
         IN  <<m>> \o SortedSeqOf(S \ {m})

parseDayList(input, maxDays) ==
    LET nonEmpty == SelectSeq(input, LAMBDA t : t.kind # "empty")      \* filter(Boolean)
        finite   == SelectSeq(nonEmpty, LAMBDA t : t.kind = "num")     \* Number, isFinite
        floored  == [k \in 1..Len(finite) |-> finite[k].tenths \div 10] \* Math.floor
        nums     == SelectSeq(floored, LAMBDA n : n >= 0 /\ n < maxDays)
    IN  SortedSeqOf({nums[k] : k \in 1..Len(nums)})                     \* Set, sort

includes(seq, x) == \E k \in 1..Len(seq) : seq[k] = x

-----------------------------------------------------------------------------
(* Schedule: the 7-row sheet                                               *)

DAY_LABELS == <<"Mon", "Tue", "Wed", "Thu", "Fri", "Sat", "Sun">>

\* body of the for loop of `rows` for day i
scheduleRow(i, startingMiles, fullRangeMiles, reserve, overnightMiles, days, oneWayMiles, returnMiles, fastChargeDays) ==
    LET isDriveDay == i < Min(7, Max(0, days))
        owm == IF isDriveDay THEN oneWayMiles ELSE 0
        rtm == IF isDriveDay THEN returnMiles ELSE 0
        didFastCharge == includes(fastChargeDays, i)
        remainingRaw == IF didFastCharge /\ isDriveDay
                        THEN fullRangeMiles - rtm
                        ELSE startingMiles - (owm + rtm)
        remainingMiles == clampNonNeg(remainingRaw - reserve)
        nextStartingMiles == clampNonNeg(remainingMiles + overnightMiles)
    IN  [dayIndex |-> i,
         label |-> DAY_LABELS[(i % 7) + 1],
         startingMiles |-> clampNonNeg(startingMiles),
         oneWayMiles |-> owm,
         returnMiles |-> rtm,
         didFastCharge |-> (didFastCharge /\ isDriveDay),
         fastChargeMiles |-> IF didFastCharge /\ isDriveDay THEN fullRangeMiles ELSE 0,
         remainingMiles |-> remainingMiles,
         overnightChargeMiles |-> clampNonNeg(overnightMiles),
         nextStartingMiles |-> nextStartingMiles]

RECURSIVE scheduleLoop(_, _, _, _, _, _, _, _, _)
scheduleLoop(i, startingMiles, fullRangeMiles, reserve, overnightMiles, days, oneWayMiles, returnMiles, fastChargeDays) ==
    IF i >= scheduleDays THEN << >>
    ELSE LET r == scheduleRow(i, startingMiles, fullRangeMiles, reserve, overnightMiles,
                              days, oneWayMiles, returnMiles, fastChargeDays)
         IN  <<r>> \o scheduleLoop(i + 1, r.nextStartingMiles, fullRangeMiles, reserve,
                                   overnightMiles, days, oneWayMiles, returnMiles,
                                   fastChargeDays)

\* the useMemo body of `rows`
rowsOf(plug, lvl, fullRangeMiles, reserve, overnightMiles, days, oneWayMiles, returnMiles, fastChargeDays) ==
    IF plug # "yes" \/ lvl = "null" THEN << >>
    ELSE scheduleLoop(0, fullRangeMiles, fullRangeMiles, reserve, overnightMiles,
                      days, oneWayMiles, returnMiles, fastChargeDays)

\* the useMemo body of `totals`
totalsOf(rows, miles, days, fullRangeMiles) ==
    [weeklyNeed |-> miles * days,
     endedWith  |-> IF Len(rows) > 0 THEN rows[Len(rows)].nextStartingMiles
                    ELSE fullRangeMiles,
     zeroDays   |-> Cardinality({k \in 1..Len(rows) :
                        rows[k].remainingMiles = 0
                        /\ rows[k].oneWayMiles + rows[k].returnMiles > 0})]

-----------------------------------------------------------------------------
(* SimWeek: simulateWeek                                                   *)

\* perDayMiles[i]: the first weekdayDriveDays of Mon..Fri and the first
\* weekendDriveDays of Sat, Sun have driving
perDayMiles(i, weekdayMilesPerDay, weekdayDriveDays, weekendMilesPerDay, weekendDays) ==
    IF i < 5 THEN (IF i < weekdayDriveDays THEN weekdayMilesPerDay ELSE 0)
    ELSE IF i < 7 THEN (IF i - 5 < weekendDays THEN weekendMilesPerDay ELSE 0)
    ELSE 0

\* mutant: the fast charge is taken before the outbound leg, so the whole day's
\* miles come off the full battery
simulateDayChargeFirst(i, startingMiles, fullRangeMiles, reserve, dayMiles, overnightWeekdayMiles, overnightWeekendMiles, fastChargeDays) ==
    LET oneWayMiles == RoundHalf(dayMiles)
        returnMiles == dayMiles - oneWayMiles
        isDrivingDay == dayMiles > 0
        wantsFastCharge == includes(fastChargeDays, i)
        didFastCharge == isDrivingDay /\ wantsFastCharge
        remainingRaw == IF didFastCharge
                        THEN fullRangeMiles - (oneWayMiles + returnMiles)
                        ELSE startingMiles - (oneWayMiles + returnMiles)
        remainingMiles == clampNonNeg(remainingRaw - reserve)
        overnightChargeMiles == clampNonNeg(IF i < 5 THEN overnightWeekdayMiles
                                            ELSE overnightWeekendMiles)
        nextStartingMiles == clampNonNeg(remainingMiles + overnightChargeMiles)
    IN  [dayIndex |-> i,
         label |-> DAY_LABELS[i + 1],
         startingMiles |-> clampNonNeg(startingMiles),
         oneWayMiles |-> oneWayMiles,
         returnMiles |-> returnMiles,
         didFastCharge |-> didFastCharge,
         fastChargeMiles |-> IF didFastCharge THEN fullRangeMiles ELSE 0,
         remainingMiles |-> remainingMiles,
         overnightChargeMiles |-> overnightChargeMiles,
         nextStartingMiles |-> nextStartingMiles]

\* body of the for loop of simulateWeek for day i
simulateDay(i, startingMiles, fullRangeMiles, reserve, dayMiles, overnightWeekdayMiles, overnightWeekendMiles, fastChargeDays) ==
    LET oneWayMiles == RoundHalf(dayMiles)
        returnMiles == dayMiles - oneWayMiles
        isDrivingDay == dayMiles > 0
        wantsFastCharge == includes(fastChargeDays, i)
        didFastCharge == isDrivingDay /\ wantsFastCharge
        remainingRaw == IF didFastCharge
                        THEN fullRangeMiles - returnMiles
                        ELSE startingMiles - (oneWayMiles + returnMiles)
        remainingMiles == clampNonNeg(remainingRaw - reserve)
        overnightChargeMiles == clampNonNeg(IF i < 5 THEN overnightWeekdayMiles
                                            ELSE overnightWeekendMiles)
        nextStartingMiles == clampNonNeg(remainingMiles + overnightChargeMiles)
    IN  [dayIndex |-> i,
         label |-> DAY_LABELS[i + 1],
         startingMiles |-> clampNonNeg(startingMiles),
         oneWayMiles |-> oneWayMiles,
         returnMiles |-> returnMiles,
         didFastCharge |-> didFastCharge,
         fastChargeMiles |-> IF didFastCharge THEN fullRangeMiles ELSE 0,
         remainingMiles |-> remainingMiles,
         overnightChargeMiles |-> overnightChargeMiles,
         nextStartingMiles |-> nextStartingMiles]

RECURSIVE simulateLoop(_, _, _)
simulateLoop(i, startingMiles, o) ==
    IF i >= 7 THEN << >>
    ELSE LET r == simulateDay(i, startingMiles, o.fullRangeMiles, o.reserveMiles,
                              perDayMiles(i, o.weekdayMilesPerDay, o.weekdayDriveDays,
                                          o.weekendMilesPerDay, o.weekendDriveDays),
                              o.overnightWeekdayMiles, o.overnightWeekendMiles,
                              o.fastChargeDays)
         IN  <<r>> \o simulateLoop(i + 1, r.nextStartingMiles, o)

simulateWeek(opts) ==
    LET simRows == simulateLoop(0, opts.fullRangeMiles, opts)
    IN  [rows |-> simRows,
         fullResetsPerWeek |-> Cardinality({k \in 1..Len(simRows) : simRows[k].didFastCharge}),
         weeklyMilesDriven |-> opts.weekdayMilesPerDay * opts.weekdayDriveDays
                               + opts.weekendMilesPerDay * opts.weekendDriveDays,
         reserveFloorHits |-> Cardinality({k \in 1..Len(simRows) :
                                  simRows[k].remainingMiles = 0
                                  /\ simRows[k].oneWayMiles + simRows[k].returnMiles > 0}),
         endingMiles |-> simRows[7].nextStartingMiles]

-----------------------------------------------------------------------------
-----------------------------------------------------------------------------
(* The result cards                                                        *)
(*                                                                         *)
(* A card is one of the pre-written objects of a `result` memo; the model  *)
(* keeps its badge and the number its body text quotes (0 when the body is *)
(* a fixed string).                                                        *)

Card(badge, quoted) == [badge |-> badge, sessions |-> quoted]

\* mutant: the band edges compared with < in place of <=
resultScheduleStrict(plug, lvl, miles) ==
    IF plug = "no" THEN Card("LEVEL 0", 0)
    ELSE IF plug # "yes" \/ lvl = "null" THEN Null
    ELSE IF lvl = "L1" THEN
        IF miles < L1BandReady THEN Card("READY (L1)", 0)
        ELSE IF miles < L1BandPlan THEN Card("READY + PLAN", 0)
        ELSE Card("FAST-CHARGE DEPENDENT", 0)
    ELSE IF lvl = "L2" THEN
        IF miles < L2BandReady THEN Card("LEVEL 3", 0)
        ELSE Card("LEVEL 2+", 0)
    ELSE Null

resultSchedule(plug, lvl, miles) ==
    IF plug = "no" THEN Card("LEVEL 0", 0)
    ELSE IF plug # "yes" \/ lvl = "null" THEN Null
    ELSE IF lvl = "L1" THEN
        IF miles <= L1BandReady THEN Card("READY (L1)", 0)
        ELSE IF miles <= L1BandPlan THEN Card("READY + PLAN", 0)
        ELSE Card("FAST-CHARGE DEPENDENT", 0)
    ELSE IF lvl = "L2" THEN
        IF miles <= L2BandReady THEN Card("LEVEL 3", 0)
        ELSE Card("LEVEL 2+", 0)
    ELSE Null

\* mutant: the plug type is looked at before the answer of Q1
resultFullResetLevelFirst(plug, lvl, miles) ==
    IF lvl = "L1" THEN
        IF miles <= L1BandReady THEN Card("READY (L1)", 0)
        ELSE IF miles <= L1BandPlan THEN Card("READY + PLAN", 0)
        ELSE Card("FAST-CHARGE DEPENDENT", 0)
    ELSE IF lvl = "L2" THEN
        IF miles <= L2BandReady THEN Card("LEVEL 3", 0)
        ELSE Card("LEVEL 2+", 0)
    ELSE IF plug = "no" THEN Card("LEVEL 0", 0)
    ELSE Null

resultFullReset(plug, lvl, miles) ==
    IF plug = "no" THEN Card("LEVEL 0", 0)
    ELSE IF plug # "yes" \/ lvl = "null" THEN Null
    ELSE IF lvl = "L1" THEN
        IF miles <= L1BandReady THEN Card("READY (L1)", 0)
        ELSE IF miles <= L1BandPlan THEN Card("READY + PLAN", 0)
        ELSE Card("FAST-CHARGE DEPENDENT", 0)
    ELSE IF lvl = "L2" THEN
        IF miles <= L2BandReady THEN Card("LEVEL 3", 0)
        ELSE Card("LEVEL 2+", 0)
    ELSE Null

resultSimWeek(plug, lvl, m) ==
    IF plug = "no" THEN Card("LEVEL 0", 0)
    ELSE IF plug # "yes" \/ lvl = "null" THEN Null
    ELSE IF lvl = "L1" THEN
        IF m <= L1BandReady THEN Card("READY (L1)", 0)
        ELSE IF m <= L1BandPlan THEN Card("READY + PLAN", 0)
        ELSE Card("FAST-CHARGE DEPENDENT", 0)
    ELSE IF m <= L2BandReady THEN Card("LEVEL 3", 0)
    ELSE Card("LEVEL 2+", 0)

resultPart3(plug, lvl, routineMiles) ==
    IF plug = "no" THEN Card("LEVEL 0", 0)
    ELSE IF plug # "yes" \/ lvl = "null" THEN Null
    ELSE IF lvl = "L1" THEN
        IF routineMiles <= L1BandReady THEN Card("READY (L1)", 0)
        ELSE IF routineMiles <= L1BandPlan THEN Card("READY + PLAN", 0)
        ELSE Card("FAST-CHARGE DEPENDENT", 0)
    ELSE IF routineMiles <= L2BandReady THEN Card("LEVEL 3", 0)
    ELSE Card("LEVEL 2+", 0)

resultPart1(plug, lvl, routineMiles, plan) ==
    IF plug = "no" THEN Card("LEVEL 0", 0)
    ELSE IF lvl = "null" \/ plan = Null THEN Null
    ELSE IF lvl = "L1" THEN
        IF routineMiles <= L1BandReady THEN Card("READY (L1)", 0)
        ELSE IF routineMiles <= L1BandPlan THEN Card("READY + PLAN", 0)
        ELSE Card("FAST-CHARGE DEPENDENT", 0)
    ELSE IF lvl = "L2" THEN
        IF routineMiles <= L2BandReady THEN Card("LEVEL 2 READY", 0)
        ELSE Card("LEVEL 2+", 0)
    ELSE Null

\* mutant: the session bands shifted by one
resultPart2Shifted(plug, lvl, weekdayMilesPerDay, fastChargeSessions) ==
    IF plug = "no" THEN Card("LEVEL 0", 0)
    ELSE IF plug # "yes" \/ lvl = "null" THEN Null
    ELSE IF lvl = "L2" THEN
        IF weekdayMilesPerDay <= L2BandReady THEN Card("LEVEL 3", 0)
        ELSE Card("LEVEL 2+", 0)
    ELSE IF lvl = "L1" THEN
        IF fastChargeSessions <= SessionsPlan THEN Card("READY (L1)", 0)
        ELSE IF fastChargeSessions = SessionsPlan + 1
        THEN Card("READY + PLAN", fastChargeSessions)
        ELSE Card("FAST-CHARGE DEPENDENT", fastChargeSessions)
    ELSE Null

resultPart2(plug, lvl, weekdayMilesPerDay, fastChargeSessions) ==
    IF plug = "no" THEN Card("LEVEL 0", 0)
    ELSE IF plug # "yes" \/ lvl = "null" THEN Null
    ELSE IF lvl = "L2" THEN
        IF weekdayMilesPerDay <= L2BandReady THEN Card("LEVEL 3", 0)
        ELSE Card("LEVEL 2+", 0)
    ELSE IF lvl = "L1" THEN
        IF fastChargeSessions <= SessionsReady THEN Card("READY (L1)", 0)
        ELSE IF fastChargeSessions = SessionsPlan THEN Card("READY + PLAN", fastChargeSessions)
        ELSE Card("FAST-CHARGE DEPENDENT", fastChargeSessions)
    ELSE Null

resultGreen(plug, lvl, weekdayMilesPerDay, fastChargeSessions) ==
    IF plug = "no" THEN Card("LEVEL 0", 0)
    ELSE IF plug # "yes" \/ lvl = "null" THEN Null
    ELSE IF lvl = "L2" THEN
        IF weekdayMilesPerDay <= L2BandReady THEN Card("LEVEL 3", 0)
        ELSE Card("LEVEL 2+", 0)
    ELSE IF lvl = "L1" THEN
        IF fastChargeSessions <= SessionsReady THEN Card("READY (L1)", 0)
        ELSE IF fastChargeSessions = SessionsPlan THEN Card("READY + PLAN", fastChargeSessions)
        ELSE Card("FAST-CHARGE DEPENDENT", fastChargeSessions)
    ELSE Null

-----------------------------------------------------------------------------
(* Rendering: useMemo cells                                                *)
(*                                                                         *)
(* A render reads the useState cells (the record i below) and walks the    *)
(* component body top to bottom.  useMemo(f, deps) returns the cached      *)
(* value when deps are unchanged since the render that computed it, and    *)
(* calls f otherwise.  Dependencies are compared by value; for the objects *)
(* among them (plan, rows) React compares references, and an object is a   *)
(* new reference exactly when its own memo recomputed, which the value     *)
(* comparison can only make rarer.                                         *)

useMemo(cached, deps, val) ==
    IF cached # Null /\ cached.deps = deps THEN cached
    ELSE [deps |-> deps, val |-> val]

\* a plain `const x = ...` of the component body: computed by every render
eachRender(val) == [deps |-> << >>, val |-> val]

NoMemo ==
    [oneWayMiles |-> Null, returnMiles |-> Null, overnightMiles |-> Null,
     overnightWeekendMiles |-> Null, fastChargeDays |-> Null, rows |-> Null,
     totals |-> Null, weeklyNeed |-> Null, plan |-> Null,
     fastChargeSessions |-> Null, result |-> Null, estBatteryKwh |-> Null,
     sim |-> Null]

(* dependency arrays *)
\* the argument object of the simulateWeek call of `sim`
simOpts(i, overnightWeekdayMiles, overnightWeekendMiles, fastChargeDays) ==
    [fullRangeMiles |-> i.fullRange, reserveMiles |-> i.reserveMiles,
     weekdayMilesPerDay |-> i.milesPerDay, weekdayDriveDays |-> i.drivingDays,
     weekendMilesPerDay |-> i.weekendMiles, weekendDriveDays |-> i.weekendDriveDays,
     overnightWeekdayMiles |-> overnightWeekdayMiles,
     overnightWeekendMiles |-> overnightWeekendMiles, fastChargeDays |-> fastChargeDays]

simDeps(i, overnightWeekdayMiles, overnightWeekendMiles, fastChargeDays) ==
    <<i.canPlug, i.level, i.fullRange, i.reserveMiles, i.milesPerDay, i.drivingDays,
      i.weekendMiles, i.weekendDriveDays, overnightWeekdayMiles, overnightWeekendMiles,
      fastChargeDays>>

estBatteryKwhDeps(i) == <<i.fullRange, i.milesPerKwh>>

rowsDeps(i, overnightMiles, oneWayMiles, returnMiles, fastChargeDays) ==
    <<i.canPlug, i.level, i.fullRange, i.reserveMiles, overnightMiles, scheduleDays,
      i.drivingDays, oneWayMiles, returnMiles, fastChargeDays>>

totalsDeps(i, rows) == <<rows, i.milesPerDay, i.drivingDays, i.fullRange>>

resultDepsSchedule(i) == <<i.canPlug, i.level, i.milesPerDay>>

planDepsPart1(i) ==
    <<i.canPlug, i.level, i.milesPerDay, i.drivingDays, i.weekendMiles, i.weekendChargeHours>>

\* mutant: fullRange missing from the dependency array
fastChargeSessionsDepsPart1Stale(i, plan) == <<plan>>

fastChargeSessionsDepsPart1(i, plan) == <<plan, i.fullRange>>

resultDepsPart1(i, plan) == <<i.canPlug, i.level, i.milesPerDay, plan>>

planDepsPart2(i, weeklyNeed) ==
    <<i.canPlug, i.level, weeklyNeed, i.milesPerDay, i.drivingDays, i.weekendMiles,
      i.weekdayChargeHours, i.weekendChargeHours>>

resultDepsPart2(i, fastChargeSessions) ==
    <<i.canPlug, i.level, i.milesPerDay, fastChargeSessions>>

planDepsGreen(i, weeklyNeed) ==
    <<i.canPlug, i.level, weeklyNeed, i.milesPerDay, i.drivingDays, i.weekendMiles,
      i.weekdayChargeHours, i.weekendChargeHours>>

resultDepsGreen(i, fastChargeSessions) ==
    <<i.canPlug, i.level, i.milesPerDay, fastChargeSessions>>

(* component bodies *)
renderSchedule(old, i) ==
    LET oneWayMiles == useMemo(old.oneWayMiles, <<i.milesPerDay>>, RoundHalf(i.milesPerDay))
        returnMiles == useMemo(old.returnMiles, <<i.milesPerDay, oneWayMiles.val>>,
                               i.milesPerDay - oneWayMiles.val)
        overnightMiles ==
            useMemo(old.overnightMiles, <<i.level>>,
                    IF i.level = "null" THEN 0
                    ELSE calcOvernightMiles(i.level, DefaultOvernightHours))
        fastChargeDays == useMemo(old.fastChargeDays, <<i.fastChargeDaysInput>>,
                                  parseDayList(i.fastChargeDaysInput, scheduleDays))
        rows == useMemo(old.rows,
                        rowsDeps(i, overnightMiles.val, oneWayMiles.val, returnMiles.val,
                                 fastChargeDays.val),
                        rowsOf(i.canPlug, i.level, i.fullRange, i.reserveMiles,
                               overnightMiles.val, i.drivingDays, oneWayMiles.val,
                               returnMiles.val, fastChargeDays.val))
        totals == useMemo(old.totals, totalsDeps(i, rows.val),
                          totalsOf(rows.val, i.milesPerDay, i.drivingDays, i.fullRange))
        result == useMemo(old.result, resultDepsSchedule(i),
                          resultSchedule(i.canPlug, i.level, i.milesPerDay))
    IN  [oneWayMiles |-> oneWayMiles, returnMiles |-> returnMiles,
         overnightMiles |-> overnightMiles, fastChargeDays |-> fastChargeDays,
         rows |-> rows, totals |-> totals, result |-> result] @@ NoMemo

renderFullReset(old, i) ==
    LET plan == eachRender(IF i.canPlug = "yes" /\ i.level # "null"
                      THEN calcChargePlanFullReset(i.milesPerDay, i.drivingDays, i.level,
                                                   DefaultOvernightHours)
                      ELSE Null)
        weeklyMiles == useMemo(old.weeklyNeed, <<i.milesPerDay, i.drivingDays>>,
                               i.milesPerDay * i.drivingDays)
        result == useMemo(old.result, <<i.canPlug, i.level, i.milesPerDay>>,
                          resultFullReset(i.canPlug, i.level, i.milesPerDay))
    IN  [plan |-> plan, weeklyNeed |-> weeklyMiles, result |-> result] @@ NoMemo

renderSimWeek(old, i) ==
    LET fastChargeDays == useMemo(old.fastChargeDays, <<i.fastChargeDaysInput>>,
                                  parseDayList(i.fastChargeDaysInput, 7))
        overnightWeekdayMiles ==
            useMemo(old.overnightMiles, <<i.level, i.weekdayChargeHours>>,
                    IF i.level = "null" THEN 0
                    ELSE calcOvernightMiles(i.level, i.weekdayChargeHours))
        overnightWeekendMiles ==
            useMemo(old.overnightWeekendMiles, <<i.level, i.weekendChargeHours>>,
                    IF i.level = "null" THEN 0
                    ELSE calcOvernightMiles(i.level, i.weekendChargeHours))
        sim == useMemo(old.sim,
                       simDeps(i, overnightWeekdayMiles.val, overnightWeekendMiles.val,
                               fastChargeDays.val),
                       IF i.canPlug # "yes" \/ i.level = "null" THEN Null
                       ELSE simulateWeek(simOpts(i, overnightWeekdayMiles.val,
                                                 overnightWeekendMiles.val,
                                                 fastChargeDays.val)))
        result == useMemo(old.result, <<i.canPlug, i.level, i.milesPerDay>>,
                          resultSimWeek(i.canPlug, i.level, i.milesPerDay))
    IN  [fastChargeDays |-> fastChargeDays, overnightMiles |-> overnightWeekdayMiles,
         overnightWeekendMiles |-> overnightWeekendMiles, sim |-> sim,
         result |-> result] @@ NoMemo

renderPart1(old, i) ==
    LET plan == useMemo(old.plan, planDepsPart1(i),
                        IF i.canPlug = "yes" /\ i.level # "null"
                        THEN calcChargePlan(i.milesPerDay, i.drivingDays, i.weekendMiles,
                                            i.level, i.weekdayChargeHours,
                                            i.weekendChargeHours)
                        ELSE Null)
        fastChargeSessions ==
            useMemo(old.fastChargeSessions, fastChargeSessionsDepsPart1(i, plan.val),
                    IF plan.val = Null THEN 0
                    ELSE calcFastChargeSessionsForShortfall(plan.val.weeklyShortfall,
                                                            i.fullRange, i.reserveMiles))
        result == useMemo(old.result, resultDepsPart1(i, plan.val),
                          resultPart1(i.canPlug, i.level, i.milesPerDay, plan.val))
    IN  [plan |-> plan, fastChargeSessions |-> fastChargeSessions, result |-> result,
         estBatteryKwh |-> useMemo(old.estBatteryKwh, estBatteryKwhDeps(i),
                                   calcEstBatteryKwh(i.fullRange, i.milesPerKwh))]
        @@ NoMemo

renderPart2(old, i) ==
    LET weeklyNeed == useMemo(old.weeklyNeed,
                              <<i.milesPerDay, i.drivingDays, i.weekendMiles>>,
                              i.milesPerDay * i.drivingDays + i.weekendMiles)
        plan == useMemo(old.plan, planDepsPart2(i, weeklyNeed.val),
                        IF i.canPlug = "no"
                        THEN [mph |-> 0, weeklyNeed |-> weeklyNeed.val,
                              weeklyHomeSupply |-> 0, weeklyShortfall |-> weeklyNeed.val]
                        ELSE IF i.canPlug = "yes" /\ i.level # "null"
                        THEN calcChargePlan(i.milesPerDay, i.drivingDays, i.weekendMiles,
                                            i.level, i.weekdayChargeHours,
                                            i.weekendChargeHours)
                        ELSE Null)
        fastChargeSessions ==
            eachRender(IF plan.val # Null
                  THEN calcFastChargeSessionsForShortfall(plan.val.weeklyShortfall,
                                                          i.fullRange, i.reserveMiles)
                  ELSE 0)
        result == useMemo(old.result, resultDepsPart2(i, fastChargeSessions.val),
                          resultPart2(i.canPlug, i.level, i.milesPerDay,
                                      fastChargeSessions.val))
    IN  [weeklyNeed |-> weeklyNeed, plan |-> plan,
         fastChargeSessions |-> fastChargeSessions, result |-> result,
         estBatteryKwh |-> useMemo(old.estBatteryKwh, estBatteryKwhDeps(i),
                                   calcEstBatteryKwh(i.fullRange, i.milesPerKwh))]
        @@ NoMemo

renderGreen(old, i) ==
    LET weeklyNeed == useMemo(old.weeklyNeed,
                              <<i.milesPerDay, i.drivingDays, i.weekendMiles>>,
                              i.milesPerDay * i.drivingDays + i.weekendMiles)
        plan == useMemo(old.plan, planDepsGreen(i, weeklyNeed.val),
                        IF i.canPlug = "no"
                        THEN [mph |-> 0, weeklyNeed |-> weeklyNeed.val,
                              weeklyHomeSupply |-> 0, weeklyShortfall |-> weeklyNeed.val]
                        ELSE IF i.canPlug = "yes" /\ i.level # "null"
                        THEN calcChargePlan(i.milesPerDay, i.drivingDays, i.weekendMiles,
                                            i.level, i.weekdayChargeHours,
                                            i.weekendChargeHours)
                        ELSE Null)
        fastChargeSessions ==
            eachRender(IF plan.val # Null
                  THEN calcFastChargeSessionsForShortfall(plan.val.weeklyShortfall,
                                                          i.fullRange, i.reserveMiles)
                  ELSE 0)
        result == useMemo(old.result, resultDepsGreen(i, fastChargeSessions.val),
                          resultGreen(i.canPlug, i.level, i.milesPerDay,
                                      fastChargeSessions.val))
    IN  [weeklyNeed |-> weeklyNeed, plan |-> plan,
         fastChargeSessions |-> fastChargeSessions, result |-> result,
         estBatteryKwh |-> useMemo(old.estBatteryKwh, estBatteryKwhDeps(i),
                                   calcEstBatteryKwh(i.fullRange, i.milesPerKwh))]
        @@ NoMemo

renderPart3(old, i) ==
    LET plan == eachRender(IF i.canPlug = "yes" /\ i.level # "null"
                      THEN calcChargePlan(i.milesPerDay, i.drivingDays, i.weekendMiles,
                                          i.level, i.weekdayChargeHours,
                                          i.weekendChargeHours)
                      ELSE Null)
        fastChargeSessions ==
            eachRender(IF plan.val # Null /\ i.canPlug = "yes"
                  THEN calcFastChargeSessionsForShortfall(plan.val.weeklyShortfall,
                                                          i.fullRange, i.reserveMiles)
                  ELSE 0)
        result == useMemo(old.result, <<i.canPlug, i.level, i.milesPerDay>>,
                          resultPart3(i.canPlug, i.level, i.milesPerDay))
    IN  [plan |-> plan, fastChargeSessions |-> fastChargeSessions, result |-> result,
         estBatteryKwh |-> useMemo(old.estBatteryKwh, estBatteryKwhDeps(i),
                                   calcEstBatteryKwh(i.fullRange, i.milesPerKwh))]
        @@ NoMemo

render(old, i) ==
    CASE i.variant = "Schedule"  -> renderSchedule(old, i)
      [] i.variant = "Green"     -> renderGreen(old, i)
      [] i.variant = "SimWeek"   -> renderSimWeek(old, i)
      [] i.variant = "Part1"     -> renderPart1(old, i)
      [] i.variant = "Part2"     -> renderPart2(old, i)
      [] i.variant = "FullReset" -> renderFullReset(old, i)
      [] i.variant = "Part3"     -> renderPart3(old, i)

-----------------------------------------------------------------------------
(* The inputs the user can give                                            *)

\* the positions of a range input: min, min + step, ..., max
Grid(lo, hi, stp) == {lo + k * stp : k \in 0..((hi - lo) \div stp)}

\* the sampled positions of a slider
Sample(lo, hi, stp, dflt) ==
    {lo + ((((hi - lo) \div stp) * k) \div Max(1, SliderSamples - 1)) * stp :
        k \in 0..(SliderSamples - 1)}
    \cup {dflt}

\* miles per driving day: both ends, the default and both sides of every band edge
MilesValues ==
    {0, MilesMax, DefaultMilesPerDay}
    \cup {e + d : e \in {L1BandReady, L1BandPlan, L2BandReady}, d \in {0, MilesStep}}

DrivingDaysValues ==
    IF variant \in {"Schedule", "FullReset"}
    THEN Sample(0, DrivingDaysMax, 1, DefaultDrivingDays)
    ELSE Sample(0, WeekdayDrivingDaysMax, 1, DefaultDrivingDays)

FullRangeValues ==
    IF variant = "Part1"
    THEN Sample(FullRangeMin, FullRangeMaxPart1, FullRangeStep, DefaultFullRange)
    ELSE IF variant = "Schedule"
    THEN Sample(FullRangeMin, FullRangeMax, FullRangeStep, DefaultFullRangeSchedule)
    ELSE Sample(FullRangeMin, FullRangeMax, FullRangeStep, DefaultFullRange)

WeekendMilesValues ==
    IF variant = "Part3"
    THEN Sample(0, WeekendMilesMaxPart3, MilesStep, DefaultWeekendMiles)
    ELSE Sample(0, WeekendMilesMax, MilesStep, DefaultWeekendMiles)

WeekendChargeHoursValues == Sample(0, WeekendChargeHoursMax, 1, DefaultWeekendChargeHours)

ReserveMilesValues == Sample(0, ReserveMilesMax, 1, DefaultReserveMiles)

MilesPerKwhValues ==
    Sample(MilesPerKwhMinTenths, MilesPerKwhMaxTenths, 1, DefaultMilesPerKwhTenths)

\* tokens typed into the fast-charge-days box: "x" and "4.5" (and "", the default)
Tokens == {Tok("nan", 0), Tok("num", 45)}

\* "".split(",") is [""]: a string always has at least one token
EmptyInput == <<Tok("empty", 0)>>

TextValues == UNION {[1..n -> Tokens] : n \in 1..MaxTokens}

-----------------------------------------------------------------------------
(* The state machine                                                       *)

\* the useState cells a render reads
In ==
    [variant |-> variant, canPlug |-> canPlug, level |-> level,
     milesPerDay |-> milesPerDay, drivingDays |-> drivingDays, fullRange |-> fullRange,
     weekendMiles |-> weekendMiles, weekdayChargeHours |-> weekdayChargeHours,
     weekendChargeHours |-> weekendChargeHours, reserveMiles |-> reserveMiles,
     fastChargeDaysInput |-> fastChargeDaysInput, milesPerKwh |-> milesPerKwh,
     weekendDriveDays |-> weekendDriveDays]

\* what the last render put on screen
plan == memo.plan.val
fastChargeSessions == memo.fastChargeSessions.val
result == memo.result.val
rows == memo.rows.val
totals == memo.totals.val
sim == memo.sim.val
overnightMiles == memo.overnightMiles.val

HasShowFinalResult == variant \in {"Green", "Part1", "Part2", "Part3"}

Init ==
    /\ variant \in Variants
    /\ step = "Q1"
    /\ canPlug = "null"
    /\ level = "null"
    /\ showFinalResult = FALSE
    /\ milesPerDay = DefaultMilesPerDay
    /\ drivingDays = DefaultDrivingDays
    /\ fullRange = IF variant = "Schedule" THEN DefaultFullRangeSchedule ELSE DefaultFullRange
    /\ weekendMiles = IF variant = "SimWeek" THEN DefaultWeekendMilesPerDay ELSE DefaultWeekendMiles
    /\ weekdayChargeHours = DefaultOvernightHours
    /\ weekendChargeHours = DefaultWeekendChargeHours
    /\ reserveMiles = DefaultReserveMiles
    /\ fastChargeDaysInput = EmptyInput
    /\ milesPerKwh = DefaultMilesPerKwhTenths
    /\ weekendDriveDays = DefaultWeekendDriveDays
    /\ memo = render(NoMemo, In)
    /\ left = {}
    /\ afterReset = "none"

\* React re-renders after the handler; the history records a step that was left
Rerender ==
    /\ memo' = render(memo, In')
    /\ left' = IF step' = step THEN left ELSE left \cup {step}
    /\ afterReset' = "none"

\* mutant: the efficiency slider is left where it was
resetKeepsEfficiency ==
    /\ \/ variant # "Green"
       \/ step = "PLAN" /\ showFinalResult /\ result # Null
    /\ step' = "Q1"
    /\ canPlug' = "null"
    /\ level' = "null"
    /\ showFinalResult' = FALSE
    /\ milesPerDay' = DefaultMilesPerDay
    /\ drivingDays' = DefaultDrivingDays
    /\ fullRange' = IF variant = "Schedule" THEN DefaultFullRangeSchedule
                    ELSE DefaultFullRange
    /\ weekendMiles' = IF variant = "SimWeek" THEN DefaultWeekendMilesPerDay ELSE DefaultWeekendMiles
    /\ weekdayChargeHours' = DefaultOvernightHours
    /\ weekendChargeHours' = DefaultWeekendChargeHours
    /\ reserveMiles' = DefaultReserveMiles
    /\ fastChargeDaysInput' = EmptyInput
    /\ milesPerKwh' = milesPerKwh
    /\ weekendDriveDays' = DefaultWeekendDriveDays
    /\ UNCHANGED variant
    /\ memo' = render(memo, In')
    /\ left' = {}
    /\ afterReset' = step

\* the Reset button of the header and the Start over button of the result card
reset ==
    /\ \/ variant # "Green"
       \/ step = "PLAN" /\ showFinalResult /\ result # Null
    /\ step' = "Q1"
    /\ canPlug' = "null"
    /\ level' = "null"
    /\ showFinalResult' = FALSE
    /\ milesPerDay' = DefaultMilesPerDay
    /\ drivingDays' = DefaultDrivingDays
    /\ fullRange' = IF variant = "Schedule" THEN DefaultFullRangeSchedule
                    ELSE DefaultFullRange
    /\ weekendMiles' = IF variant = "SimWeek" THEN DefaultWeekendMilesPerDay ELSE DefaultWeekendMiles
    /\ weekdayChargeHours' = DefaultOvernightHours
    /\ weekendChargeHours' = DefaultWeekendChargeHours
    /\ reserveMiles' = DefaultReserveMiles
    /\ fastChargeDaysInput' = EmptyInput
    /\ milesPerKwh' = DefaultMilesPerKwhTenths
    /\ weekendDriveDays' = DefaultWeekendDriveDays
    /\ UNCHANGED variant
    /\ memo' = render(memo, In')
    /\ left' = {}
    /\ afterReset' = step

\* mutant: the answer "no" is not stored
onQ1Forgetful(ans) ==
    /\ step = "Q1"
    /\ canPlug' = IF ans = "no" THEN canPlug ELSE ans
    /\ showFinalResult' = IF variant \in {"Green", "Part2", "Part3"} THEN FALSE
                          ELSE showFinalResult
    /\ level' = IF variant \in {"Green", "Part2"} /\ ans = "no" THEN "null" ELSE level
    /\ weekendChargeHours' = IF variant \in {"Green", "Part2"} /\ ans = "no"
                             THEN DefaultWeekendChargeHours ELSE weekendChargeHours
    /\ step' = IF ans = "yes" THEN "Q2"
               ELSE IF variant \in {"Green", "Part2"} THEN "MILES"
               ELSE IF variant = "Part3" THEN "PLAN"
               ELSE "RESULT"
    /\ UNCHANGED <<variant, milesPerDay, drivingDays, fullRange, weekendMiles,
                   weekdayChargeHours, reserveMiles, fastChargeDaysInput>>
    /\ UNCHANGED <<milesPerKwh, weekendDriveDays>>
    /\ Rerender

\* mutant: the answer "no" goes on to the plug-type question like "yes"
onQ1NoToQ2(ans) ==
    /\ step = "Q1"
    /\ canPlug' = ans
    /\ showFinalResult' = IF variant \in {"Green", "Part2", "Part3"} THEN FALSE
                          ELSE showFinalResult
    /\ level' = IF variant \in {"Green", "Part2"} /\ ans = "no" THEN "null" ELSE level
    /\ weekendChargeHours' = IF variant \in {"Green", "Part2"} /\ ans = "no"
                             THEN DefaultWeekendChargeHours ELSE weekendChargeHours
    /\ step' = "Q2"
    /\ UNCHANGED <<variant, milesPerDay, drivingDays, fullRange, weekendMiles,
                   weekdayChargeHours, reserveMiles, fastChargeDaysInput>>
    /\ UNCHANGED <<milesPerKwh, weekendDriveDays>>
    /\ Rerender

onQ1(ans) ==
    /\ step = "Q1"
    /\ canPlug' = ans
    /\ showFinalResult' = IF variant \in {"Green", "Part2", "Part3"} THEN FALSE
                          ELSE showFinalResult
    /\ level' = IF variant \in {"Green", "Part2"} /\ ans = "no" THEN "null" ELSE level
    /\ weekendChargeHours' = IF variant \in {"Green", "Part2"} /\ ans = "no"
                             THEN DefaultWeekendChargeHours ELSE weekendChargeHours
    /\ step' = IF ans = "yes" THEN "Q2"
               ELSE IF variant \in {"Green", "Part2"} THEN "MILES"
               ELSE IF variant = "Part3" THEN "PLAN"
               ELSE "RESULT"
    /\ UNCHANGED <<variant, milesPerDay, drivingDays, fullRange, weekendMiles,
                   weekdayChargeHours, reserveMiles, fastChargeDaysInput>>
    /\ UNCHANGED <<milesPerKwh, weekendDriveDays>>
    /\ Rerender

\* mutant: the plug-type answer sends the wizard back to the first question
onQ2BackToQ1(ans) ==
    /\ step = "Q2"
    /\ level' = ans
    /\ showFinalResult' = IF variant \in {"Green", "Part2", "Part3"} THEN FALSE
                          ELSE showFinalResult
    /\ weekdayChargeHours' = IF variant # "SimWeek" THEN weekdayChargeHours
                             ELSE IF ans = "L1" THEN DefaultOvernightHours
                             ELSE L2WeekdayChargeHours
    /\ weekendChargeHours' = IF variant # "SimWeek" THEN weekendChargeHours
                             ELSE IF ans = "L1" THEN DefaultWeekendChargeHours
                             ELSE L2WeekendChargeHours
    /\ step' = "Q1"
    /\ UNCHANGED <<variant, canPlug, milesPerDay, drivingDays, fullRange, weekendMiles,
                   reserveMiles, fastChargeDaysInput>>
    /\ UNCHANGED <<milesPerKwh, weekendDriveDays>>
    /\ Rerender

\* mutant: the plug-type answer is not stored
onQ2Forgetful(ans) ==
    /\ step = "Q2"
    /\ level' = level
    /\ showFinalResult' = IF variant \in {"Green", "Part2", "Part3"} THEN FALSE
                          ELSE showFinalResult
    /\ weekdayChargeHours' = IF variant # "SimWeek" THEN weekdayChargeHours
                             ELSE IF ans = "L1" THEN DefaultOvernightHours
                             ELSE L2WeekdayChargeHours
    /\ weekendChargeHours' = IF variant # "SimWeek" THEN weekendChargeHours
                             ELSE IF ans = "L1" THEN DefaultWeekendChargeHours
                             ELSE L2WeekendChargeHours
    /\ step' = IF variant = "SimWeek" THEN "INPUTS" ELSE "MILES"
    /\ UNCHANGED <<variant, canPlug, milesPerDay, drivingDays, fullRange, weekendMiles,
                   reserveMiles, fastChargeDaysInput>>
    /\ UNCHANGED <<milesPerKwh, weekendDriveDays>>
    /\ Rerender

onQ2(ans) ==
    /\ step = "Q2"
    /\ level' = ans
    /\ showFinalResult' = IF variant \in {"Green", "Part2", "Part3"} THEN FALSE
                          ELSE showFinalResult
    /\ weekdayChargeHours' = IF variant # "SimWeek" THEN weekdayChargeHours
                             ELSE IF ans = "L1" THEN DefaultOvernightHours
                             ELSE L2WeekdayChargeHours
    /\ weekendChargeHours' = IF variant # "SimWeek" THEN weekendChargeHours
                             ELSE IF ans = "L1" THEN DefaultWeekendChargeHours
                             ELSE L2WeekendChargeHours
    /\ step' = IF variant = "SimWeek" THEN "INPUTS" ELSE "MILES"
    /\ UNCHANGED <<variant, canPlug, milesPerDay, drivingDays, fullRange, weekendMiles,
                   reserveMiles, fastChargeDaysInput>>
    /\ UNCHANGED <<milesPerKwh, weekendDriveDays>>
    /\ Rerender

\* "<- Back" of the Q2 screen
backToQ1 ==
    /\ step = "Q2"
    /\ variant # "SimWeek"
    /\ step' = "Q1"
    /\ UNCHANGED <<variant, canPlug, level, showFinalResult, milesPerDay, drivingDays,
                   fullRange, weekendMiles, weekdayChargeHours, weekendChargeHours,
                   reserveMiles, fastChargeDaysInput>>
    /\ UNCHANGED <<milesPerKwh, weekendDriveDays>>
    /\ Rerender

(* the inputs of the MILES screen *)
navCells == <<variant, step, canPlug, level, showFinalResult>>

setMilesPerDay(v) ==
    /\ step = "MILES"
    /\ milesPerDay' = v
    /\ UNCHANGED <<navCells, drivingDays, fullRange, weekendMiles, weekdayChargeHours,
                   weekendChargeHours, reserveMiles, fastChargeDaysInput>>
    /\ UNCHANGED <<milesPerKwh, weekendDriveDays>>
    /\ Rerender

setDrivingDays(v) ==
    /\ step = "MILES"
    /\ variant # "Part1"
    /\ drivingDays' = v
    /\ UNCHANGED <<navCells, milesPerDay, fullRange, weekendMiles, weekdayChargeHours,
                   weekendChargeHours, reserveMiles, fastChargeDaysInput>>
    /\ UNCHANGED <<milesPerKwh, weekendDriveDays>>
    /\ Rerender

setFullRange(v) ==
    /\ step = "MILES"
    /\ fullRange' = v
    /\ UNCHANGED <<navCells, milesPerDay, drivingDays, weekendMiles, weekdayChargeHours,
                   weekendChargeHours, reserveMiles, fastChargeDaysInput>>
    /\ UNCHANGED <<milesPerKwh, weekendDriveDays>>
    /\ Rerender

setWeekendMiles(v) ==
    /\ step = "MILES"
    /\ variant \in {"Green", "Part2", "Part3"}
    /\ weekendMiles' = v
    /\ UNCHANGED <<navCells, milesPerDay, drivingDays, fullRange, weekdayChargeHours,
                   weekendChargeHours, reserveMiles, fastChargeDaysInput>>
    /\ UNCHANGED <<milesPerKwh, weekendDriveDays>>
    /\ Rerender

\* Green and Part2 render this slider only when canPlug !== "no"
setWeekendChargeHours(v) ==
    /\ step = "MILES"
    /\ \/ variant = "Part3"
       \/ variant \in {"Green", "Part2"} /\ canPlug # "no"
    /\ weekendChargeHours' = v
    /\ UNCHANGED <<navCells, milesPerDay, drivingDays, fullRange, weekendMiles,
                   weekdayChargeHours, reserveMiles, fastChargeDaysInput>>
    /\ UNCHANGED <<milesPerKwh, weekendDriveDays>>
    /\ Rerender

setReserveMiles(v) ==
    /\ step = "MILES"
    /\ variant = "Schedule"
    /\ reserveMiles' = v
    /\ UNCHANGED <<navCells, milesPerDay, drivingDays, fullRange, weekendMiles,
                   weekdayChargeHours, weekendChargeHours, fastChargeDaysInput>>
    /\ UNCHANGED <<milesPerKwh, weekendDriveDays>>
    /\ Rerender

setMilesPerKwh(v) ==
    /\ step = "MILES"
    /\ variant \in {"Green", "Part2", "Part3"}
    /\ milesPerKwh' = v
    /\ UNCHANGED <<navCells, milesPerDay, drivingDays, fullRange, weekendMiles,
                   weekdayChargeHours, weekendChargeHours, reserveMiles,
                   fastChargeDaysInput, weekendDriveDays>>
    /\ Rerender

setFastChargeDaysInput(text) ==
    /\ step = "MILES"
    /\ variant = "Schedule"
    /\ fastChargeDaysInput' = text
    /\ UNCHANGED <<navCells, milesPerDay, drivingDays, fullRange, weekendMiles,
                   weekdayChargeHours, weekendChargeHours, reserveMiles>>
    /\ UNCHANGED <<milesPerKwh, weekendDriveDays>>
    /\ Rerender

(* the navigation buttons *)
sliderCells == <<milesPerDay, drivingDays, fullRange, weekendMiles, weekdayChargeHours,
                 weekendChargeHours, reserveMiles, fastChargeDaysInput,
                 milesPerKwh, weekendDriveDays>>

\* "Next ->" of the MILES screen; disabled={!plan} in Green, Part2 and Part3
next ==
    /\ step = "MILES"
    /\ \/ variant = "Part1"
       \/ variant \in {"Green", "Part2", "Part3"} /\ plan # Null
    /\ step' = "PLAN"
    /\ UNCHANGED <<variant, canPlug, level, showFinalResult, sliderCells>>
    /\ Rerender

\* "Show my result": a step of its own in Schedule and FullReset, a toggle of
\* the PLAN screen elsewhere (disabled={!result} in Green, Part2 and Part3)
showMyResult ==
    /\ \/ /\ variant \in {"Schedule", "FullReset"}
          /\ step = "MILES"
          /\ step' = "RESULT"
          /\ UNCHANGED showFinalResult
       \/ /\ variant \in {"Green", "Part2", "Part3"}
          /\ step = "PLAN"
          /\ result # Null
          /\ showFinalResult' = TRUE
          /\ UNCHANGED step
       \/ /\ variant = "Part1"
          /\ step \in {"PLAN", "RESULT"}
          /\ canPlug # "no"
          /\ ~showFinalResult
          /\ showFinalResult' = TRUE
          /\ UNCHANGED step
    /\ UNCHANGED <<variant, canPlug, level, sliderCells>>
    /\ Rerender

\* mutant: going back to the plug-type question forgets the plug type
changePlugTypeClearsLevel ==
    /\ step = "MILES"
    /\ variant \in {"Schedule", "FullReset", "Part1", "Part3"}
    /\ step' = "Q2"
    /\ level' = "null"
    /\ UNCHANGED <<variant, canPlug, showFinalResult, sliderCells>>
    /\ Rerender

\* "<- Change plug type" of the MILES screen ("<- Back" in Part1)
changePlugType ==
    /\ step = "MILES"
    /\ variant \in {"Schedule", "FullReset", "Part1", "Part3"}
    /\ step' = "Q2"
    /\ UNCHANGED <<variant, canPlug, level, showFinalResult, sliderCells>>
    /\ Rerender

\* mutant: the result card is left open when going back to the sliders
backToSlidersCardOpen ==
    /\ \/ variant = "Part3" /\ step = "PLAN"
       \/ variant = "Part1" /\ step \in {"PLAN", "RESULT"} /\ canPlug # "no"
    /\ showFinalResult' = showFinalResult
    /\ step' = "MILES"
    /\ UNCHANGED <<variant, canPlug, level, sliderCells>>
    /\ Rerender

\* "<- Back to sliders" of the PLAN screen
backToSliders ==
    /\ \/ variant = "Part3" /\ step = "PLAN"
       \/ variant = "Part1" /\ step \in {"PLAN", "RESULT"} /\ canPlug # "no"
    /\ showFinalResult' = FALSE
    /\ step' = "MILES"
    /\ UNCHANGED <<variant, canPlug, level, sliderCells>>
    /\ Rerender

\* "<- Adjust my inputs" of the result card
adjustMyInputs ==
    /\ \/ /\ variant \in {"Schedule", "FullReset"}
          /\ step = "RESULT"
          /\ result # Null
          /\ step' = IF level # "null" THEN "MILES" ELSE "Q2"
          /\ UNCHANGED showFinalResult
       \/ /\ variant = "Part3"
          /\ step = "PLAN"
          /\ showFinalResult
          /\ result # Null
          /\ showFinalResult' = FALSE
          /\ step' = "MILES"
    /\ UNCHANGED <<variant, canPlug, level, sliderCells>>
    /\ Rerender

Next ==
    \/ reset
    \/ \E ans \in {"yes", "no"} : onQ1(ans)
    \/ \E ans \in {"L1", "L2"} : onQ2(ans)
    \/ backToQ1
    \/ \E v \in MilesValues : setMilesPerDay(v)
    \/ \E v \in DrivingDaysValues : setDrivingDays(v)
    \/ \E v \in FullRangeValues : setFullRange(v)
    \/ \E v \in WeekendMilesValues : setWeekendMiles(v)
    \/ \E v \in WeekendChargeHoursValues : setWeekendChargeHours(v)
    \/ \E v \in ReserveMilesValues : setReserveMiles(v)
    \/ \E v \in MilesPerKwhValues : setMilesPerKwh(v)
    \/ \E text \in TextValues : setFastChargeDaysInput(text)
    \/ next
    \/ showMyResult
    \/ changePlugType
    \/ backToSliders
    \/ adjustMyInputs

Spec == Init /\ [][Next]_vars

TypeOK ==
    /\ variant \in Variants
    /\ step \in {"Q1", "Q2", "MILES", "INPUTS", "PLAN", "RESULT"}
    /\ canPlug \in {"yes", "no", "null"}
    /\ level \in {"L1", "L2", "null"}
    /\ showFinalResult \in BOOLEAN
    /\ milesPerDay \in Grid(0, MilesMax, MilesStep)
    /\ drivingDays \in 0..DrivingDaysMax
    /\ fullRange \in Grid(FullRangeMin, FullRangeMaxPart1, FullRangeStep)
    /\ weekendMiles \in Grid(0, WeekendMilesMax, MilesStep)
    /\ weekendChargeHours \in 0..WeekendChargeHoursMax
    /\ reserveMiles \in 0..ReserveMilesMax
    /\ milesPerKwh \in MilesPerKwhMinTenths..MilesPerKwhMaxTenths
    /\ weekendDriveDays \in 0..weekendNightsPluggedIn
    /\ afterReset \in {"none", "Q1", "Q2", "MILES", "INPUTS", "PLAN", "RESULT"}

-----------------------------------------------------------------------------
(* Step order                                                              *)

\* The screens in the order the wizard presents them
Rank(s) ==
    CASE s = "Q1" -> 1
      [] s = "Q2" -> 2
      [] s \in {"MILES", "INPUTS"} -> 3
      [] s = "PLAN" -> 4
      [] s = "RESULT" -> 5

\* the buttons that lead back: Back, Change plug type, Back to sliders, Adjust my inputs
BackwardButton == backToQ1 \/ changePlugType \/ backToSliders \/ adjustMyInputs

\* C1 as stated: a step that has been left is never shown again.
C1_NoStepShownAgain == step \notin left

\* C1 (amended): a step that has been left is shown again only through a backward
\* button (Back, Change plug type, Back to sliders, Adjust my inputs) or Reset; the
\* answer buttons, Next, Show my result and the sliders never move the wizard to an
\* earlier step of the order Q1 < Q2 < MILES/INPUTS < PLAN < RESULT.
C1_ForwardButtonsNeverGoBack ==
    [][(step' # step /\ ~BackwardButton /\ ~reset) => Rank(step') > Rank(step)]_vars

\* the wizard has walked forward through all its steps
C1_Witness == step \in {"PLAN", "RESULT"} /\ {"Q1", "Q2", "MILES"} \subseteq left

-----------------------------------------------------------------------------
(* Charge plan                                                             *)

\* the variants whose plan comes from the weekday / weekend calcChargePlan
SplitPlanVariants == {"Green", "Part1", "Part2", "Part3"}

\* the plan on the screen was computed by calcChargePlan for a home charger
HomePlanShown ==
    variant \in SplitPlanVariants /\ canPlug = "yes" /\ level # "null" /\ plan # Null

\* miles per charging hour as the claims state it
StatedRate == IF level = "L1" THEN 4 ELSE 25

\* home charging capacity of one week as C2 states it
StatedCapacity == StatedRate * weekdayChargeHours * 5 + StatedRate * weekendChargeHours * 2

\* C2: the plan of the weekday/weekend variants has weeklyNeed = miles x days +
\* weekendMiles and weeklyShortfall = max(0, weeklyNeed - (rate x weekdayHours x 5 +
\* rate x weekendHours x 2)); the shortfall is 0 whenever the capacity covers the
\* need, as for 140 miles x 5 days on Level 2 with 9 hours a night.
C2_ChargePlanArithmetic ==
    HomePlanShown =>
        /\ plan.weeklyNeed = milesPerDay * drivingDays + weekendMiles
        /\ plan.weeklyShortfall =
               IF plan.weeklyNeed - StatedCapacity > 0
               THEN plan.weeklyNeed - StatedCapacity ELSE 0
        /\ (StatedCapacity >= plan.weeklyNeed => plan.weeklyShortfall = 0)
        /\ (level = "L2" /\ milesPerDay = 140 /\ drivingDays = 5 /\ weekendMiles = 0
            /\ weekdayChargeHours = 9
                => plan.weeklyNeed = 700 /\ plan.weeklyShortfall = 0)

\* the example of the specification: 700 miles a week on Level 2, no shortfall
C2_Witness ==
    /\ HomePlanShown
    /\ level = "L2" /\ milesPerDay = 140 /\ drivingDays = 5 /\ weekendMiles = 0
    /\ weekdayChargeHours = 9
    /\ plan.weeklyShortfall = 0

\* C3: the fast-charge session count is 0 when the weekly shortfall is <= 0, and
\* otherwise the least n with n x max(1, fullRange - 10) >= shortfall.
C3_SessionsAreLeastCover ==
    (variant \in SplitPlanVariants /\ plan # Null) =>
        LET shortfall == plan.weeklyShortfall
            usable == IF fullRange - 10 > 1 THEN fullRange - 10 ELSE 1
        IN  /\ shortfall <= 0 => fastChargeSessions = 0
            /\ shortfall > 0 =>
                   /\ fastChargeSessions * usable >= shortfall
                   /\ (fastChargeSessions - 1) * usable < shortfall

\* a shortfall that one fast-charge session does not cover
C3_Witness ==
    /\ variant \in SplitPlanVariants /\ plan # Null
    /\ plan.weeklyShortfall > fullRange - 10
    /\ fastChargeSessions >= 2

\* C4: Level 1 adds 4 miles and Level 2 adds 25 miles per charging hour, overnight
\* miles are rate x hours (36 and 225 miles for the 9-hour night), and the overnight
\* miles of the wizard are 0 while no level is chosen.
C4_OvernightMiles ==
    /\ \A h \in 0..WeekendChargeHoursMax :
           /\ calcOvernightMiles("L1", h) = 4 * h
           /\ calcOvernightMiles("L2", h) = 25 * h
    /\ variant = "Schedule" =>
           overnightMiles = CASE level = "null" -> 0
                              [] level = "L1" -> 36
                              [] level = "L2" -> 225
    /\ variant = "SimWeek" =>
           /\ overnightMiles = IF level = "null" THEN 0
                               ELSE StatedRate * weekdayChargeHours
           /\ memo.overnightWeekendMiles.val = IF level = "null" THEN 0
                                               ELSE StatedRate * weekendChargeHours

\* a Level 1 night of 9 hours on the schedule screen
C4_Witness ==
    variant = "Schedule" /\ step = "MILES" /\ level = "L1" /\ overnightMiles = 36

-----------------------------------------------------------------------------
(* Result cards                                                            *)

\* the variants whose card is chosen by the miles per driving day
MileageBandVariants == {"Schedule", "SimWeek", "Part1", "FullReset", "Part3"}

\* the variants whose Level 1 card is chosen by the fast-charge sessions
SessionBandVariants == {"Part2", "Green"}

\* a home charger was chosen, so a band card is on the screen
BandCardShown == canPlug = "yes" /\ level # "null"

\* the mileage bands as C5 states them
StatedMileageBadge ==
    IF level = "L1"
    THEN IF milesPerDay <= 50 THEN "READY (L1)"
         ELSE IF milesPerDay <= 120 THEN "READY + PLAN"
         ELSE "FAST-CHARGE DEPENDENT"
    ELSE IF milesPerDay <= 200 THEN "LEVEL 3" ELSE "LEVEL 2+"

\* C5 as stated: in every variant that classifies by miles per driving day the
\* badge is the stated band, LEVEL 3 for Level 2 up to 200 miles.
C5_MileageBandsAsStated ==
    (variant \in MileageBandVariants /\ BandCardShown) =>
        result # Null /\ result.badge = StatedMileageBadge

\* C5 (amended): with canPlug = 'yes' and a level chosen the badge is READY (L1) for
\* L1 and miles <= 50, READY + PLAN for L1 and 50 < miles <= 120, FAST-CHARGE
\* DEPENDENT for L1 and miles > 120, LEVEL 3 for L2 and miles <= 200 (LEVEL 2 READY
\* in the part_001 variant) and LEVEL 2+ for L2 and miles > 200; every slider value
\* 0..250 falls in exactly one band.
C5_MileageBands ==
    (variant \in MileageBandVariants /\ BandCardShown) =>
        /\ result # Null
        /\ result.badge =
               IF variant = "Part1" /\ StatedMileageBadge = "LEVEL 3"
               THEN "LEVEL 2 READY" ELSE StatedMileageBadge
        /\ Cardinality({b \in {"READY (L1)", "READY + PLAN", "FAST-CHARGE DEPENDENT",
                               "LEVEL 3", "LEVEL 2 READY", "LEVEL 2+"} :
                           result.badge = b}) = 1

\* the part_001 card for Level 2 exactly on the edge of its first band
C5_Witness ==
    /\ variant = "Part1" /\ BandCardShown
    /\ level = "L2" /\ milesPerDay = 200 /\ result.badge = "LEVEL 2 READY"

\* the least number of sessions of (fullRange - 10) miles that covers the shortfall
StatedSessions ==
    IF plan.weeklyShortfall <= 0 THEN 0
    ELSE (plan.weeklyShortfall + (fullRange - 10) - 1) \div (fullRange - 10)

\* C6: in the variants that classify Level 1 by fast-charge sessions the badge is
\* READY (L1) for at most 1 session, READY + PLAN for 2 and FAST-CHARGE DEPENDENT
\* for 3 or more, the sessions being ceil(weeklyShortfall / (fullRange - 10)); with
\* Level 2 the badge depends on weekdayMilesPerDay only (<= 200 LEVEL 3, else LEVEL 2+).
C6_SessionBands ==
    (variant \in SessionBandVariants /\ BandCardShown) =>
        /\ plan # Null /\ result # Null
        /\ fastChargeSessions = StatedSessions
        /\ level = "L1" =>
               result.badge = IF StatedSessions <= 1 THEN "READY (L1)"
                              ELSE IF StatedSessions = 2 THEN "READY + PLAN"
                              ELSE "FAST-CHARGE DEPENDENT"
        /\ level = "L2" =>
               result.badge = IF milesPerDay <= 200 THEN "LEVEL 3" ELSE "LEVEL 2+"

\* a Level 1 week that needs exactly two fast-charge sessions
C6_Witness ==
    /\ variant \in SessionBandVariants /\ BandCardShown /\ level = "L1"
    /\ fastChargeSessions = 2 /\ result.badge = "READY + PLAN"

\* C7: whenever canPlug = 'no' the result card is the LEVEL 0 card, in every variant.
C7_NoPlugIsLevel0 ==
    canPlug = "no" => result # Null /\ result.badge = "LEVEL 0"

\* "No" was answered after a plug type had been chosen on an earlier pass
C7_Witness ==
    canPlug = "no" /\ level # "null" /\ step \in {"PLAN", "RESULT"}
    /\ result.badge = "LEVEL 0"

\* C8: on the RESULT step of the Schedule and FullReset variants a result card exists.
C8_ResultStepHasCard ==
    (variant \in {"Schedule", "FullReset"} /\ step = "RESULT") => result # Null

\* the RESULT step reached by the "No" answer, without the plug-type question
C8_Witness ==
    variant \in {"Schedule", "FullReset"} /\ step = "RESULT" /\ canPlug = "no"
    /\ "Q2" \notin left

\* C9: every value on the screen equals what the formulas give for the current
\* canPlug, level and inputs; no memoised value is stale.
C9_NoStaleMemo ==
    LET fresh == render(NoMemo, In)
    IN  \A f \in DOMAIN memo :
            /\ memo[f] = Null <=> fresh[f] = Null
            /\ memo[f] # Null => memo[f].val = fresh[f].val

\* a memoised plan that a slider change forced to be computed again
C9_Witness ==
    /\ variant \in SplitPlanVariants /\ plan # Null /\ step = "MILES"
    /\ fullRange # DefaultFullRange /\ fullRange # DefaultFullRangeSchedule
    /\ milesPerDay # DefaultMilesPerDay
    /\ fastChargeSessions > 0

\* C10 as stated: in the Schedule and FullReset variants the steps Q2 and MILES are
\* shown only with canPlug = 'yes', MILES only with a level chosen, and the schedule
\* of the MILES step is never empty.
C10_SlidersOnlyWithPlug ==
    variant \in {"Schedule", "FullReset"} =>
        /\ step \in {"Q2", "MILES"} => canPlug = "yes"
        /\ step = "MILES" => level # "null"
        /\ (variant = "Schedule" /\ step = "MILES") => Len(rows) = scheduleDays

-----------------------------------------------------------------------------
(* The "No" branch and the PLAN step                                       *)

\* the variants whose "No" answer leads to the MILES step
NoToMilesVariants == {"Part2", "Green"}

\* C11: in the variants that send "No" to MILES, answering No skips the plug-type
\* step, clears level and shows MILES: canPlug = 'no' implies level = null, and
\* with canPlug = 'no' the wizard is on MILES or PLAN, never on Q2.
C11_NoSkipsPlugType ==
    (variant \in NoToMilesVariants /\ canPlug = "no") =>
        level = "null" /\ step \in {"MILES", "PLAN"}

\* "No" was answered and the sliders are shown without the plug-type step
C11_Witness ==
    /\ variant \in NoToMilesVariants /\ canPlug = "no"
    /\ step = "MILES" /\ left = {"Q1"}

\* C12: in the variants with a guarded Next button the plan is non-null on MILES
\* and PLAN and the result is non-null on PLAN, so Next and Show my result are
\* never disabled and the placeholder is never shown.
C12_PlanAndResultDefined ==
    variant \in NoToMilesVariants =>
        /\ step \in {"MILES", "PLAN"} => plan # Null
        /\ step = "PLAN" => result # Null

\* the PLAN step of the "No" branch, with its plan and its card
C12_Witness ==
    /\ variant \in NoToMilesVariants /\ step = "PLAN" /\ canPlug = "no"
    /\ plan # Null /\ result # Null

\* C13 as stated: in the part_003 variant the PLAN step is shown only with a plan.
C13_PlanStepHasPlan ==
    (variant = "Part3" /\ step = "PLAN") => plan # Null

-----------------------------------------------------------------------------
(* Reset                                                                   *)

\* every useState cell holds the value it is constructed with, and the screen is
\* the one a first render computes from these values
FreshlyLoaded ==
    /\ step = "Q1" /\ canPlug = "null" /\ level = "null" /\ showFinalResult = FALSE
    /\ milesPerDay = 140 /\ drivingDays = 5
    /\ fullRange = IF variant = "Schedule" THEN 270 ELSE 260
    /\ weekendMiles = (IF variant = "SimWeek" THEN 30 ELSE 20) /\ weekendDriveDays = 0
    /\ weekdayChargeHours = 9 /\ weekendChargeHours = 16
    /\ reserveMiles = 10 /\ milesPerKwh = 30
    /\ fastChargeDaysInput = EmptyInput
    /\ memo = render(NoMemo, In)
    /\ left = {}

\* C14: after Reset / Start over every state variable has its initial value, so
\* the wizard goes on exactly as a freshly loaded one.
C14_ResetRestoresInitialState ==
    afterReset # "none" => FreshlyLoaded

\* Start over was pressed on the last screen of the wizard
C14_Witness ==
    afterReset \in {"PLAN", "RESULT"} /\ FreshlyLoaded

-----------------------------------------------------------------------------
(* The "Show my result" toggle                                             *)

\* the variants C15 names for the toggle
ToggleVariants == {"Part1", "Part3"}

\* C15: in part_001 and part_003 the result card is open only on the PLAN step,
\* and every transition that enters PLAN from another step ends with
\* showFinalResult = false.
C15_CardClosedOnEnteringPlan ==
    /\ [](variant \in ToggleVariants /\ showFinalResult => step = "PLAN")
    /\ [][(variant \in ToggleVariants /\ step # "PLAN" /\ step' = "PLAN")
              => ~showFinalResult']_vars

\* the PLAN step entered again after the card had been opened and closed
C15_Witness ==
    /\ variant \in ToggleVariants /\ step = "PLAN" /\ ~showFinalResult
    /\ "PLAN" \in left

-----------------------------------------------------------------------------
(* Navigation                                                              *)

\* the buttons that only navigate
NavigationButton ==
    backToQ1 \/ changePlugType \/ next \/ showMyResult \/ backToSliders \/ adjustMyInputs

\* C16: Q2 Back, Change plug type, Next, Show my result, Back to sliders and Adjust
\* my inputs change only step and showFinalResult; canPlug, level and every slider
\* value (and the fast-charge-days text) stay as they were.
C16_NavigationKeepsInputs ==
    [][NavigationButton =>
           /\ canPlug' = canPlug /\ level' = level
           /\ milesPerDay' = milesPerDay /\ drivingDays' = drivingDays
           /\ fullRange' = fullRange /\ weekendMiles' = weekendMiles
           /\ weekdayChargeHours' = weekdayChargeHours
           /\ weekendChargeHours' = weekendChargeHours
           /\ reserveMiles' = reserveMiles /\ milesPerKwh' = milesPerKwh
           /\ weekendDriveDays' = weekendDriveDays
           /\ fastChargeDaysInput' = fastChargeDaysInput]_vars

\* back on the plug-type question with the plug type and the moved sliders in place
C16_Witness ==
    /\ step = "Q2" /\ "MILES" \in left
    /\ level # "null" /\ canPlug = "yes"
    /\ milesPerDay # 140 /\ fullRange \notin {260, 270}


-----------------------------------------------------------------------------
(* The 7-day sheet as a function of its inputs                             *)

SheetVariants == {"Schedule", "SimWeek"}

\* typed day tokens: "x", "0", "4.5", "6" and "7" (one past the last day)
SheetTokens == {Tok("nan", 0), Tok("num", 0), Tok("num", 45), Tok("num", 60), Tok("num", 70)}

SheetTextValues == {EmptyInput} \cup UNION {[1..n -> SheetTokens] : n \in 1..(MaxTokens + 1)}

SheetMilesValues == {0, 55, DefaultMilesPerDay}

SheetFullRangeValues == {FullRangeMin, DefaultFullRange}

SheetReserveValues == {0, DefaultReserveMiles, ReserveMilesMax}

\* the wizard on its input screen, the plug and its type answered, with any
\* setting of the sheet's inputs, before the sheet is computed
SheetInit ==
    /\ variant \in SheetVariants
    /\ step = IF variant = "Schedule" THEN "MILES" ELSE "INPUTS"
    /\ canPlug = "yes"
    /\ level \in {"L1", "L2"}
    /\ showFinalResult = FALSE
    /\ milesPerDay \in SheetMilesValues
    /\ drivingDays \in IF variant = "Schedule" THEN {0, 3, DefaultDrivingDays, DrivingDaysMax}
                       ELSE {0, 3, WeekdayDrivingDaysMax}
    /\ fullRange \in SheetFullRangeValues
    /\ weekendMiles \in IF variant = "SimWeek" THEN {DefaultWeekendMilesPerDay, 45}
                        ELSE {DefaultWeekendMiles}
    /\ weekendDriveDays \in IF variant = "SimWeek" THEN 0..weekendNightsPluggedIn
                            ELSE {DefaultWeekendDriveDays}
    /\ weekdayChargeHours = IF variant = "SimWeek" /\ level = "L2" THEN L2WeekdayChargeHours
                            ELSE DefaultOvernightHours
    /\ weekendChargeHours = IF variant = "SimWeek" /\ level = "L2" THEN L2WeekendChargeHours
                            ELSE DefaultWeekendChargeHours
    /\ reserveMiles \in SheetReserveValues
    /\ fastChargeDaysInput \in SheetTextValues
    /\ milesPerKwh = DefaultMilesPerKwhTenths
    /\ memo = NoMemo
    /\ left = {"Q1", "Q2"}
    /\ afterReset = "none"

\* the first render with these inputs computes every memo
SheetRender ==
    /\ memo = NoMemo
    /\ memo' = render(NoMemo, In)
    /\ UNCHANGED <<navCells, sliderCells, left, afterReset>>

SheetNext == SheetRender

SheetSpec == SheetInit /\ [][SheetNext]_vars

\* the rows of the sheet on screen
sheetRows == IF variant = "Schedule" THEN rows ELSE sim.rows

SheetShown == variant \in SheetVariants /\ memo # NoMemo /\ canPlug = "yes" /\ level # "null"

\* miles added overnight after day k (1-based): rate x 9 hours in the schedule
\* variant, rate x the weekday or weekend charge hours in simulateWeek
StatedOvernight(k) ==
    IF variant = "Schedule" THEN StatedRate * 9
    ELSE StatedRate * (IF k <= 5 THEN weekdayChargeHours ELSE weekendChargeHours)

\* miles driven on day k (1-based) as the inputs say
StatedDayMiles(k) ==
    IF variant = "Schedule" THEN (IF k <= drivingDays THEN milesPerDay ELSE 0)
    ELSE IF k <= 5 THEN (IF k <= drivingDays THEN milesPerDay ELSE 0)
    ELSE (IF k - 5 <= weekendDriveDays THEN weekendMiles ELSE 0)

\* C17: day 0 starts at fullRange; a day without fast charge leaves
\* max(0, startingMiles - (oneWayMiles + returnMiles) - reserveMiles); a driving
\* day with fast charge leaves max(0, fullRange - returnMiles - reserveMiles)
\* whatever it started with; nextStartingMiles = remainingMiles + overnight
\* miles; each day starts with the previous day's nextStartingMiles.
C17_DailyScheduleRule ==
    SheetShown =>
        LET rs == sheetRows
        IN  /\ Len(rs) = 7
            /\ rs[1].startingMiles = fullRange
            /\ \A k \in 1..7 :
                /\ rs[k].oneWayMiles + rs[k].returnMiles = StatedDayMiles(k)
                /\ ~rs[k].didFastCharge =>
                       rs[k].remainingMiles =
                           Max(0, rs[k].startingMiles
                                  - (rs[k].oneWayMiles + rs[k].returnMiles) - reserveMiles)
                /\ rs[k].didFastCharge =>
                       rs[k].remainingMiles =
                           Max(0, fullRange - rs[k].returnMiles - reserveMiles)
                /\ rs[k].didFastCharge =>
                       IF variant = "Schedule" THEN k <= drivingDays
                       ELSE StatedDayMiles(k) > 0
                /\ rs[k].nextStartingMiles = rs[k].remainingMiles + StatedOvernight(k)
                /\ k < 7 => rs[k + 1].startingMiles = rs[k].nextStartingMiles

\* a sheet with a fast charge on a driving day that did not start full, next to a
\* day without one
C17_Witness ==
    /\ SheetShown
    /\ \E k \in 2..7 :
        /\ sheetRows[k].didFastCharge
        /\ sheetRows[k].startingMiles < fullRange
        /\ sheetRows[k].remainingMiles = fullRange - sheetRows[k].returnMiles - reserveMiles
        /\ ~sheetRows[k - 1].didFastCharge
        /\ sheetRows[k - 1].remainingMiles > 0
        /\ sheetRows[k].startingMiles = sheetRows[k - 1].nextStartingMiles


\* C18: the battery never holds more than a full charge: on every row of the
\* sheet startingMiles <= fullRange and nextStartingMiles <= fullRange.
C18_NeverAboveFullCharge ==
    SheetShown =>
        \A k \in 1..Len(sheetRows) :
            /\ sheetRows[k].startingMiles <= fullRange
            /\ sheetRows[k].nextStartingMiles <= fullRange

-----------------------------------------------------------------------------
(* FullReset: the top-up model                                             *)

\* C19: in the full-reset variant weeklyNeed = milesPerDrivingDay x
\* drivingDaysPerWeek (not x 7), weeklyHomeSupply = min(weeklyNeed, overnightMiles
\* x 7), fastSessionsPerWeek = ceil(weeklyShortfall / 120) and
\* publicL2SessionsPerWeek = ceil(weeklyShortfall / 60); both counts are 0
\* exactly when the shortfall is 0, and publicL2SessionsPerWeek >=
\* fastSessionsPerWeek.
C19_TopUpModel ==
    (variant = "FullReset" /\ plan # Null) =>
        /\ plan.overnightMiles = StatedRate * 9
        /\ plan.weeklyNeed = milesPerDay * drivingDays
        /\ plan.weeklyHomeSupply = Min(plan.weeklyNeed, plan.overnightMiles * 7)
        /\ plan.weeklyShortfall = Max(0, plan.weeklyNeed - plan.weeklyHomeSupply)
        /\ plan.fastSessionsPerWeek \in Nat
        /\ plan.fastSessionsPerWeek * 120 >= plan.weeklyShortfall
        /\ plan.fastSessionsPerWeek > 0 =>
               (plan.fastSessionsPerWeek - 1) * 120 < plan.weeklyShortfall
        /\ plan.publicL2SessionsPerWeek \in Nat
        /\ plan.publicL2SessionsPerWeek * 60 >= plan.weeklyShortfall
        /\ plan.publicL2SessionsPerWeek > 0 =>
               (plan.publicL2SessionsPerWeek - 1) * 60 < plan.weeklyShortfall
        /\ plan.fastSessionsPerWeek = 0 <=> plan.weeklyShortfall = 0
        /\ plan.publicL2SessionsPerWeek = 0 <=> plan.weeklyShortfall = 0
        /\ plan.publicL2SessionsPerWeek >= plan.fastSessionsPerWeek

\* five driving days of 140 miles on Level 1: 700 needed, 252 from home, a
\* shortfall of 448 covered by 4 fast or 8 public Level 2 sessions
C19_Witness ==
    /\ variant = "FullReset" /\ plan # Null
    /\ level = "L1" /\ milesPerDay = 140 /\ drivingDays = 5
    /\ plan.weeklyNeed = 700 /\ plan.weeklyHomeSupply = 252
    /\ plan.weeklyShortfall = 448
    /\ plan.fastSessionsPerWeek = 4 /\ plan.publicL2SessionsPerWeek = 8

====
